---- MODULE Spec2Model ----
(***************************************************************************)
(* zvm.js (Zig Version Manager): the installation root, the alias file and *)
(* the active link, and the commands that change them (src/zvm.js).        *)
(*                                                                         *)
(* One invocation of the tool runs at a time.  install and remove are      *)
(* split at their awaits (pc is the position inside the handler); use,     *)
(* alias and deactivate are one step each.  An install may be killed at    *)
(* any of its awaits (Interrupt).  Directory names, alias names and URLs   *)
(* are strings, so String.includes / startsWith are computed on them.      *)
(***************************************************************************)
EXTENDS Integers, Sequences, FiniteSets, TLC

\* ------------------------------------------------------------------ bounds
\* Most lines the community-mirrors document holds.
MaxMirrorLines == 2

\* ------------------------------------------------------- program constants
ZIG_CANONICAL_URL == "https://ziglang.org"
retries == 5

\* ------------------------------------------------------------ environment
\* Top-level entry names of the archives the remote serves (tar -tf, line 1).
ArchiveTops == {"zig-1", "zig-12"}
\* Names the user gives to aliases.
AliasNames == {"stable", "zig-1"}
\* Tokens the user passes to use / alias / remove.
Tokens == AliasNames \cup ArchiveTops \cup {"12"}
\* Every directory name that can appear under INSTALL_BASE_DIR.
AllDirs == ArchiveTops \cup {d \o ".tmp" : d \in ArchiveTops}
\* Lines the community-mirrors document is made of.
MirrorLines == {"https://m1", "https://m2", "https://m3", "http://m4", ""}

Null == "<null>"
NoLink == "<no link>"
\* No (base URL, filename) pair.
NoCandidate == [base |-> "", file |-> ""]
\* An alias file with no entries ({}).
NoAliases == [a \in {} |-> Null]

\* --------------------------------------------------------------- helpers
\* String.prototype.includes
includes(s, t) ==
  \E k \in 1..(Len(s) - Len(t) + 1) : SubSeq(s, k, k + Len(t) - 1) = t

\* String.prototype.startsWith
startsWith(s, t) == Len(s) >= Len(t) /\ SubSeq(s, 1, Len(t)) = t

\* Mutant: only the first element is looked at.
arrayIncludes_firstOnly(arr, x) == Len(arr) > 0 /\ arr[1] = x

\* Array.prototype.includes
arrayIncludes(arr, x) == \E k \in 1..Len(arr) : arr[k] = x

\* fs.readdir(INSTALL_BASE_DIR): the entries present, in an order the file
\* system chooses.
RECURSIVE orderings(_)
orderings(S) ==
  IF S = {} THEN {<<>>}
  ELSE UNION {{<<x>> \o s : s \in orderings(S \ {x})} : x \in S}

readdir(f) == orderings({d \in DOMAIN f : f[d] # "absent"})

\* Mutant: no preference for the exact match.
resolveVersion_firstMatch(versionOrAlias, als, dirs) ==
  IF versionOrAlias = "" THEN Null
  ELSE
    LET targetVersion == IF versionOrAlias \in DOMAIN als
                         THEN als[versionOrAlias] ELSE versionOrAlias
        matchingDirs == SelectSeq(dirs, LAMBDA dir : includes(dir, targetVersion))
    IN IF Len(matchingDirs) > 0 THEN matchingDirs[1] ELSE Null

\* Mutant: the fallback takes the last match.
resolveVersion_lastMatch(versionOrAlias, als, dirs) ==
  IF versionOrAlias = "" THEN Null
  ELSE
    LET targetVersion == IF versionOrAlias \in DOMAIN als
                         THEN als[versionOrAlias] ELSE versionOrAlias
        matchingDirs == SelectSeq(dirs, LAMBDA dir : includes(dir, targetVersion))
    IN IF Len(matchingDirs) = 1 THEN matchingDirs[1]
       ELSE IF arrayIncludes(matchingDirs, targetVersion) THEN targetVersion
       ELSE IF Len(matchingDirs) > 0 THEN matchingDirs[Len(matchingDirs)]
       ELSE Null

\* resolveVersion, given the alias file's content and the directory listing.
resolveVersion(versionOrAlias, als, dirs) ==
  IF versionOrAlias = "" THEN Null
  ELSE
    LET targetVersion == IF versionOrAlias \in DOMAIN als
                         THEN als[versionOrAlias] ELSE versionOrAlias
        matchingDirs == SelectSeq(dirs, LAMBDA dir : includes(dir, targetVersion))
    IN IF Len(matchingDirs) = 1 THEN matchingDirs[1]
       ELSE IF arrayIncludes(matchingDirs, targetVersion) THEN targetVersion
       ELSE IF Len(matchingDirs) > 0 THEN matchingDirs[1]
       ELSE Null

\* What a call that throws returns in this model.
Threw == "<throws>"

\* Mutant: the catch block rethrows whatever the error code.
resolveVersionCatch_rethrows(versionOrAlias, als, code, dirs) ==
  IF versionOrAlias = "" THEN Null
  ELSE IF code # "none" THEN Threw
  ELSE resolveVersion(versionOrAlias, als, dirs)

\* resolveVersion with its try/catch: readdir returns dirs (code "none") or
\* throws an error with that code; ENOENT is caught, any other is rethrown.
resolveVersionCatch(versionOrAlias, als, code, dirs) ==
  IF versionOrAlias = "" THEN Null
  ELSE IF code = "ENOENT" THEN Null
  ELSE IF code # "none" THEN Threw
  ELSE resolveVersion(versionOrAlias, als, dirs)

\* The characters a version string is read by.
Digits == {"0", "1", "2", "3", "4", "5", "6", "7", "8", "9"}
charAt(s, k) == SubSeq(s, k, k)

\* \d+ from position k: the position after the longest run of digits (k itself
\* when s[k] is no digit).
RECURSIVE digitsEnd(_, _)
digitsEnd(s, k) ==
  IF k <= Len(s) /\ charAt(s, k) \in Digits THEN digitsEnd(s, k + 1) ELSE k

\* /\d+\.\d+\.\d+/ anchored at position k: the position after the match, or 0.
\* (The optional group (-dev\.\d+\+[0-9a-f]+)? cannot match a string without
\* "-dev", the only strings the pattern is applied to.)
matchAt(s, k) ==
  LET e1 == digitsEnd(s, k)
      e2 == digitsEnd(s, e1 + 1)
      e3 == digitsEnd(s, e2 + 1)
  IN IF /\ e1 > k /\ e1 <= Len(s) /\ charAt(s, e1) = "."
        /\ e2 > e1 + 1 /\ e2 <= Len(s) /\ charAt(s, e2) = "."
        /\ e3 > e2 + 1
     THEN e3 ELSE 0

\* Mutant: the version is used as it was typed.
match_identity(s) == s

\* zigVersion.match(/\d+\.\d+\.\d+(-dev\.\d+\+[0-9a-f]+)?/): the leftmost match,
\* or Null.
match(s) ==
  LET starts == {k \in 1..Len(s) : matchAt(s, k) # 0}
  IN IF starts = {} THEN Null
     ELSE LET k == CHOOSE x \in starts : \A y \in starts : x <= y
          IN SubSeq(s, k, matchAt(s, k) - 1)

\* getZigPackageInfo on linux/x64; threw is the TypeError of match(...)[0] on null.
getZigPackageInfo(zigVersion) ==
  LET os_target == "linux"
      arch_target == "x86_64"
      extension == "tar.xz"
      isDevBuild == includes(zigVersion, "-dev")
      zigVersionNorm == IF isDevBuild THEN zigVersion ELSE match(zigVersion)
  IN [threw |-> zigVersionNorm = Null,
      potentialFilenames |->
        << "zig-" \o os_target \o "-" \o arch_target \o "-" \o zigVersionNorm \o "." \o extension,
           "zig-" \o arch_target \o "-" \o os_target \o "-" \o zigVersionNorm \o "." \o extension >>,
      canonicalUrl |-> IF isDevBuild THEN ZIG_CANONICAL_URL \o "/builds"
                       ELSE ZIG_CANONICAL_URL \o "/download/" \o zigVersion]

\* Mutant: every line of the list is kept.
mirrorsOf_all(lines) == lines

\* The mirrors kept of the fetched list: the lines that start with https://.
mirrorsOf(lines) == SelectSeq(lines, LAMBDA url : startsWith(url, "https://"))

\* What fetch(ZIG_MIRRORS_URL) gives: it throws, or a response that is not ok,
\* or an ok response with one of the documents docs (a sequence of lines).
Responses(docs) == ({"throw", "not ok"} \X {<<>>}) \cup ({"ok"} \X docs)

\* downloadBaseUrls after the fetch of the mirror list: mirrors stays [] unless
\* the response is ok.
downloadBaseUrls(response, canonicalUrl) ==
  LET mirrors == IF response[1] = "ok" THEN mirrorsOf(response[2]) ELSE <<>>
  IN mirrors \o <<canonicalUrl>>

\* Every community-mirrors document of at most n distinct lines.
MirrorDocs(n) ==
  UNION {{doc \in [1..k -> MirrorLines] : \A a, b \in 1..k : a # b => doc[a] # doc[b]}
         : k \in 0..n}

\* Mutant: the unlink is left out.
unlink_missing(l) == [link |-> l, code |-> "none"]

\* fs.unlink(ACTIVE_VERSION_LINK): the link after it and the error code.
unlink(l) ==
  IF l = NoLink THEN [link |-> NoLink, code |-> "ENOENT"]
  ELSE [link |-> NoLink, code |-> "none"]

\* fs.symlink(sourceDir, ACTIVE_VERSION_LINK, linkType): it fails when the
\* path is taken.
symlink(l, dirToActivate) ==
  IF l = NoLink THEN [link |-> dirToActivate, code |-> "none"]
  ELSE [link |-> l, code |-> "EEXIST"]

\* Mutant: ENOENT is not caught.
handleDeactivate_rethrows(l) ==
  IF l = NoLink THEN [link |-> NoLink, report |-> "fatal: ENOENT"]
  ELSE [link |-> NoLink, report |-> "deactivated"]

\* handleDeactivate: the link after it and what it reports.
handleDeactivate(l) ==
  IF unlink(l).code = "none"
  THEN [link |-> unlink(l).link, report |-> "deactivated"]
  ELSE IF unlink(l).code = "ENOENT"
  THEN [link |-> unlink(l).link, report |-> "info: no version is currently active"]
  ELSE [link |-> unlink(l).link, report |-> "fatal: " \o unlink(l).code]

\* Mutant: the alias is written before the version is resolved.
handleAlias_writesFirst(alias, version, als, dirs) ==
  IF alias = "" THEN [aliases |-> als, report |-> "error: usage"]
  ELSE IF version = "--unset" THEN
    IF alias \in DOMAIN als
    THEN [aliases |-> [a \in DOMAIN als \ {alias} |-> als[a]], report |-> "ok"]
    ELSE [aliases |-> als, report |-> "error: alias not found"]
  ELSE IF version = "" THEN [aliases |-> als, report |-> "error: no version"]
  ELSE
    LET dirToAlias == resolveVersion(version, als, dirs)
        written == [a \in DOMAIN als \cup {alias} |->
                      IF a = alias
                      THEN (IF dirToAlias = Null THEN version ELSE dirToAlias)
                      ELSE als[a]]
    IN [aliases |-> written,
        report |-> IF dirToAlias = Null THEN "error: version not found" ELSE "ok"]

\* handleAlias(alias, version): the alias file after it and what it reports.
handleAlias(alias, version, als, dirs) ==
  IF alias = "" THEN [aliases |-> als, report |-> "error: usage"]
  ELSE IF version = "--unset" THEN
    IF alias \in DOMAIN als
    THEN [aliases |-> [a \in DOMAIN als \ {alias} |-> als[a]], report |-> "ok"]
    ELSE [aliases |-> als, report |-> "error: alias not found"]
  ELSE IF version = "" THEN [aliases |-> als, report |-> "error: no version"]
  ELSE
    LET dirToAlias == resolveVersion(version, als, dirs)
    IN IF dirToAlias = Null
       THEN [aliases |-> als, report |-> "error: version not found"]
       ELSE [aliases |-> [a \in DOMAIN als \cup {alias} |->
                            IF a = alias THEN dirToAlias ELSE als[a]],
             report |-> "ok"]

\* Mutant: the test of the clean-up loop inverted.
cleanedAliases_inverted(als, dirToRemove) ==
  [a \in {x \in DOMAIN als : als[x] = dirToRemove} |-> als[a]]

\* The alias clean-up loop of handleRemove.
cleanedAliases(als, dirToRemove) ==
  [a \in {x \in DOMAIN als : als[x] # dirToRemove} |-> als[a]]

\* ------------------------------------------------------------------ state
VARIABLES
  fs,            \* INSTALL_BASE_DIR: directory name -> "absent" | "partial" | "complete"
  aliases,       \* ALIASES_FILE: alias name -> directory name
  link,          \* ACTIVE_VERSION_LINK: the directory it targets, or NoLink
  archive,       \* the temporary archive of the current install: "none" | "exists" | "deleted"
  pc,            \* position inside the running handler; "done" when it has returned
                 \* or thrown, "idle" between invocations
  cmd,           \* the command running or last run
  report,        \* what the last finished command reported
  alias,         \* handleInstall: its alias argument ("" when none)
  baseUrls,      \* attemptDownload: baseUrls
  filenames,     \* attemptDownload: filenames
  bi,            \* attemptDownload: index of the outer loop
  fi,            \* attemptDownload: index of the inner loop
  probed,        \* the (base URL, filename) pairs HEAD-probed so far, in order
  failed,        \* the pairs given up so far (negative or erroring probe, failed retrieval)
  downloadedFrom,\* the pair the archive was written from, or NoCandidate
  dirName,       \* unpackedDirName | dirToRemove | dirToActivate
  i,             \* renameWithRetry: loop counter
  warnings,      \* renameWithRetry: retry warnings logged
  errCode,       \* renameWithRetry: e.code of the last failed attempt, or "none"
  flag,          \* handleRemove: isActive; handleUse: a link was unlinked first
  rToken,        \* a call of resolveVersion on its own: the token,
  rDirs,         \*   what readdir returns,
  rCode,         \*   or the code of the error readdir throws ("none": it returns),
  rResult,       \*   and the result
  zVersion,      \* a call of getZigPackageInfo on its own: zigVersion,
  zInfo,         \*   and what it returns
  zResponse,     \* the fetch of the mirror list on its own: the response,
  zBaseUrls,     \*   and downloadBaseUrls
  cwd,           \* findLocalVersionFile on its own: process.cwd(),
  markers,       \*   the .zig-version file of each directory from the root down,
  currentDir     \*   and currentDir

persistent == <<fs, aliases, link>>
download == <<baseUrls, filenames, bi, fi, probed, failed, downloadedFrom>>
rename == <<i, warnings, errCode>>
vars == <<fs, aliases, link, archive, pc, cmd, report, alias, baseUrls, filenames,
          bi, fi, probed, failed, downloadedFrom, dirName, i, warnings, errCode, flag,
          rToken, rDirs, rCode, rResult, zVersion, zInfo, zResponse, zBaseUrls,
          cwd, markers, currentDir>>
resolveVars == <<rToken, rDirs, rCode, rResult>>
planVars == <<zVersion, zInfo, zResponse, zBaseUrls>>
markerVars == <<cwd, markers, currentDir>>

\* A handler starts: its locals, and nothing carried over from the last run.
Locals(a, d, f) ==
  /\ alias' = a
  /\ dirName' = d
  /\ flag' = f
  /\ baseUrls' = <<>>
  /\ filenames' = <<>>
  /\ bi' = 0
  /\ fi' = 0
  /\ probed' = <<>>
  /\ failed' = {}
  /\ downloadedFrom' = NoCandidate
  /\ i' = 0
  /\ warnings' = 0
  /\ errCode' = "none"
  /\ archive' = "none"

\* No handler is running and none has run.
AtRest ==
  /\ archive = "none"
  /\ pc = "idle"
  /\ cmd = "none"
  /\ report = "none"
  /\ alias = ""
  /\ baseUrls = <<>>
  /\ filenames = <<>>
  /\ bi = 0
  /\ fi = 0
  /\ probed = <<>>
  /\ failed = {}
  /\ downloadedFrom = NoCandidate
  /\ dirName = Null
  /\ i = 0
  /\ warnings = 0
  /\ errCode = "none"
  /\ flag = FALSE

\* No call of getZigPackageInfo or fetch of the mirror list on its own.
NoInfo == [threw |-> FALSE, potentialFilenames |-> <<>>, canonicalUrl |-> ""]
NoResponse == <<"none", <<>>>>
PlanAtRest ==
  /\ zVersion = ""
  /\ zInfo = NoInfo
  /\ zResponse = NoResponse
  /\ zBaseUrls = <<>>

\* A directory is the number of its ancestors (the root is 0).  What reading
\* its .zig-version file gives: its content, or one of these two errors.
NoMarker == "<ENOENT>"
Unreadable == "<EACCES>"
\* No walk of findLocalVersionFile on its own.
MarkerAtRest ==
  /\ cwd = 0
  /\ markers = [d \in {0} |-> NoMarker]
  /\ currentDir = 0

\* ~/.zvm before the first command: no version, no alias, no active link.
Init ==
  /\ fs = [d \in AllDirs |-> "absent"]
  /\ aliases = NoAliases
  /\ link = NoLink
  /\ AtRest
  /\ PlanAtRest
  /\ MarkerAtRest
  /\ rToken = ""
  /\ rDirs = <<>>
  /\ rCode = "none"
  /\ rResult = Null

\* ------------------------------------------------------------ use (one step)
\* handleUse(versionToUse); with no argument the version comes from the
\* nearest .zig-version file, if any.
\* handleUse once target is known (Null: no argument and no .zig-version
\* file; an empty target is as falsy as null).
UseFound(found) ==
  /\ pc' = "done"
  /\ UNCHANGED <<fs, aliases>>
  /\ IF found \in {Null, ""}
     THEN /\ report' = "error: no version specified"
          /\ link' = link
          /\ Locals("", Null, FALSE)
     ELSE \E dirs \in readdir(fs) :
          LET dirToActivate == resolveVersion(found, aliases, dirs)
          IN IF dirToActivate = Null
             THEN /\ report' = "error: not installed"
                  /\ link' = link
                  /\ Locals("", Null, FALSE)
             ELSE \* unlink (ENOENT ignored), then symlink
                  LET made == symlink(unlink(link).link, dirToActivate)
                  IN /\ link' = made.link
                     /\ report' = IF made.code = "none" THEN "ok"
                                  ELSE "fatal: " \o made.code
                     /\ Locals("", dirToActivate, link # NoLink)

Use(versionToUse) ==
  /\ pc = "idle"
  /\ UNCHANGED <<resolveVars, planVars, markerVars>>
  /\ cmd' = "use"
  /\ \E found \in (IF versionToUse = "" THEN Tokens \cup {Null} ELSE {versionToUse}) :
       UseFound(found)

\* .trim(), blanks being the white space.
RECURSIVE trimStart(_)
trimStart(s) ==
  IF Len(s) > 0 /\ charAt(s, 1) = " " THEN trimStart(SubSeq(s, 2, Len(s))) ELSE s
RECURSIVE trimEnd(_)
trimEnd(s) ==
  IF Len(s) > 0 /\ charAt(s, Len(s)) = " " THEN trimEnd(SubSeq(s, 1, Len(s) - 1)) ELSE s
trim(s) == trimEnd(trimStart(s))

\* Mutant: the parent of a directory is the directory itself.
dirname_self(dir) == dir

\* path.dirname: the parent directory; the root is its own parent.
dirname(dir) == IF dir = 0 THEN 0 ELSE dir - 1

\* handleUse without an argument calls findLocalVersionFile, which starts at
\* process.cwd().
UseWalkStart ==
  /\ pc = "idle"
  /\ cmd' = "use"
  /\ pc' = "walk"
  /\ currentDir' = cwd
  /\ report' = "none"
  /\ Locals("", Null, FALSE)
  /\ UNCHANGED <<persistent, resolveVars, planVars, cwd, markers>>

\* One turn of the loop of findLocalVersionFile; when it returns, the rest of
\* handleUse.
Walk ==
  /\ pc = "walk"
  /\ UNCHANGED <<resolveVars, planVars, cwd, markers, cmd>>
  /\ IF markers[currentDir] = Unreadable
     THEN /\ pc' = "done"
          /\ report' = "fatal: EACCES"
          /\ Locals("", Null, FALSE)
          /\ UNCHANGED <<persistent, currentDir>>
     ELSE IF markers[currentDir] # NoMarker
     THEN /\ UseFound(trim(markers[currentDir]))
          /\ UNCHANGED currentDir
     ELSE IF dirname(currentDir) = currentDir
     THEN /\ UseFound(Null)
          /\ UNCHANGED currentDir
     ELSE /\ currentDir' = dirname(currentDir)
          /\ UNCHANGED <<persistent, archive, pc, report, alias, download, dirName,
                         rename, flag>>

\* ----------------------------------------------------- deactivate (one step)
Deactivate ==
  /\ pc = "idle"
  /\ UNCHANGED <<resolveVars, planVars, markerVars>>
  /\ cmd' = "deactivate"
  /\ pc' = "done"
  /\ link' = handleDeactivate(link).link
  /\ report' = handleDeactivate(link).report
  /\ Locals("", Null, link # NoLink)
  /\ UNCHANGED <<fs, aliases>>

\* ---------------------------------------------------------- alias (one step)
\* zvm alias <name> <v|a>   and   zvm alias --unset <name>
Alias(name, version) ==
  /\ pc = "idle"
  /\ UNCHANGED <<resolveVars, planVars, markerVars>>
  /\ cmd' = "alias"
  /\ pc' = "done"
  /\ \E dirs \in readdir(fs) :
       /\ aliases' = handleAlias(name, version, aliases, dirs).aliases
       /\ report' = handleAlias(name, version, aliases, dirs).report
  /\ Locals("", Null, FALSE)
  /\ UNCHANGED <<fs, link>>

\* ------------------------------------------------------------------ remove
\* Mutant: any active link counts, whatever it points to.
isActive_anyLink(l, dirToRemove) == l # NoLink

\* isActive: readlink gives a target whose basename is dirToRemove (a readlink
\* that throws leaves it false).
isActive(l, dirToRemove) == l # NoLink /\ l = dirToRemove

\* handleRemove up to the isActive test.
RemoveStart(versionToRemove) ==
  /\ pc = "idle"
  /\ UNCHANGED <<resolveVars, planVars, markerVars>>
  /\ cmd' = "remove"
  /\ UNCHANGED persistent
  /\ \E dirs \in readdir(fs) :
       LET dirToRemove == resolveVersion(versionToRemove, aliases, dirs)
       IN IF dirToRemove = Null
          THEN /\ pc' = "done"
               /\ report' = "error: not found"
               /\ Locals("", Null, FALSE)
          ELSE /\ pc' = IF isActive(link, dirToRemove) THEN "rm_deactivate" ELSE "rm_rm"
               /\ report' = "none"
               /\ Locals("", dirToRemove, isActive(link, dirToRemove))

\* if (isActive) await handleDeactivate()
RemoveDeactivate ==
  /\ pc = "rm_deactivate"
  /\ UNCHANGED <<resolveVars, planVars, markerVars>>
  /\ link' = handleDeactivate(link).link
  /\ pc' = "rm_rm"
  /\ UNCHANGED <<fs, aliases, archive, cmd, report, alias, download, dirName, rename, flag>>

\* fs.rm(fullPath, { recursive: true, force: true })
RemoveRm ==
  /\ pc = "rm_rm"
  /\ UNCHANGED <<resolveVars, planVars, markerVars>>
  /\ fs' = [fs EXCEPT ![dirName] = "absent"]
  /\ pc' = "rm_aliases"
  /\ UNCHANGED <<aliases, link, archive, cmd, report, alias, download, dirName, rename, flag>>

\* The alias clean-up; the file is rewritten only when an alias was removed.
RemoveAliases ==
  /\ pc = "rm_aliases"
  /\ UNCHANGED <<resolveVars, planVars, markerVars>>
  /\ aliases' = IF \E a \in DOMAIN aliases : aliases[a] = dirName
                THEN cleanedAliases(aliases, dirName) ELSE aliases
  /\ pc' = "done"
  /\ report' = "ok"
  /\ UNCHANGED <<fs, link, archive, cmd, alias, download, dirName, rename, flag>>

\* ----------------------------------------------------------------- install
\* Mutant: no staging directory, the archive is extracted at the final path.
tempInstallPath_inPlace(unpackedDirName) == unpackedDirName

\* `${finalInstallPath}.tmp`
tempInstallPath(unpackedDirName) == unpackedDirName \o ".tmp"

\* handleInstall up to the call of attemptDownload: the argument and alias
\* checks, getZigPackageInfo, and the fetch of the mirror list.
InstallStart(zigVersion, a, docs) ==
  /\ pc = "idle"
  /\ UNCHANGED <<resolveVars, planVars, markerVars>>
  /\ cmd' = "install"
  /\ UNCHANGED persistent
  /\ dirName' = Null /\ flag' = FALSE /\ i' = 0 /\ warnings' = 0 /\ errCode' = "none"
  /\ archive' = "none"
  /\ probed' = <<>> /\ failed' = {} /\ downloadedFrom' = NoCandidate
  /\ IF zigVersion = "" \/ (a # "" /\ a \in DOMAIN aliases) \/ getZigPackageInfo(zigVersion).threw
     THEN /\ pc' = "done"
          /\ report' = IF zigVersion = "" THEN "error: no version"
                       ELSE IF a # "" /\ a \in DOMAIN aliases THEN "error: alias in use"
                       ELSE "fatal: TypeError"
          /\ alias' = a /\ baseUrls' = <<>> /\ filenames' = <<>> /\ bi' = 0 /\ fi' = 0
     ELSE \E response \in Responses(docs) :
               /\ baseUrls' = downloadBaseUrls(response,
                                               getZigPackageInfo(zigVersion).canonicalUrl)
               /\ filenames' = getZigPackageInfo(zigVersion).potentialFilenames
               /\ alias' = a
               /\ bi' = 1 /\ fi' = 1
               /\ pc' = "probe"
               /\ report' = "none"

\* The candidate the two loops of attemptDownload stand at.
candidate == [base |-> baseUrls[bi], file |-> filenames[fi]]

\* Mutant: the loops nested the other way round, filenames outermost.
NextCandidate_filenamesOutermost ==
  IF bi < Len(baseUrls)
  THEN /\ bi' = bi + 1 /\ fi' = fi /\ pc' = "probe" /\ report' = report
  ELSE IF fi < Len(filenames)
  THEN /\ fi' = fi + 1 /\ bi' = 1 /\ pc' = "probe" /\ report' = report
  ELSE /\ bi' = bi /\ fi' = fi /\ pc' = "done"
       /\ report' = "fatal: download failed"

\* Mutant: a candidate that fails is tried again.
NextCandidate_retrySame ==
  /\ bi' = bi /\ fi' = fi /\ pc' = "probe" /\ report' = report

\* Mutant: the first candidate that fails ends the download.
NextCandidate_failFast ==
  /\ bi' = bi /\ fi' = fi /\ pc' = "done"
  /\ report' = "fatal: download failed"

\* `continue`, or the end of the catch block: the next filename, else the next
\* base URL, else the loops are over and attemptDownload throws.
NextCandidate ==
  IF fi < Len(filenames)
  THEN /\ fi' = fi + 1 /\ bi' = bi /\ pc' = "probe" /\ report' = report
  ELSE IF bi < Len(baseUrls)
  THEN /\ bi' = bi + 1 /\ fi' = 1 /\ pc' = "probe" /\ report' = report
  ELSE /\ bi' = bi /\ fi' = fi /\ pc' = "done"
       /\ report' = "fatal: download failed"

\* fetch(url, { method: 'HEAD' })
Probe ==
  /\ pc = "probe"
  /\ UNCHANGED <<resolveVars, planVars, markerVars>>
  /\ probed' = Append(probed, candidate)
  /\ \E head \in {"ok", "not ok", "throw"} :
       IF head = "ok"
       THEN /\ pc' = "get"
            /\ UNCHANGED <<bi, fi, failed, report>>
       ELSE /\ failed' = failed \cup {candidate}
            /\ NextCandidate
  /\ UNCHANGED <<persistent, archive, cmd, alias, baseUrls, filenames, downloadedFrom,
                 dirName, rename, flag>>

\* fetch(url), then fs.writeFile(tempFile, getResponse.body)
Get ==
  /\ pc = "get"
  /\ UNCHANGED <<resolveVars, planVars, markerVars>>
  /\ \E got \in {"ok", "not ok", "throw", "write throws"} :
       IF got = "ok"
       THEN /\ archive' = "exists"
            /\ downloadedFrom' = candidate
            /\ pc' = "tar_list"
            /\ UNCHANGED <<bi, fi, failed, report>>
       ELSE /\ failed' = failed \cup {candidate}
            /\ downloadedFrom' = downloadedFrom
            /\ archive' \in (IF got = "write throws" THEN {archive, "exists"} ELSE {archive})
            /\ NextCandidate
  /\ UNCHANGED <<persistent, cmd, alias, baseUrls, filenames, probed, dirName, rename, flag>>

\* tar -tf downloadedFile; the first line names the directory.
TarList ==
  /\ pc = "tar_list"
  /\ UNCHANGED <<resolveVars, planVars, markerVars>>
  /\ \/ \E unpackedDirName \in ArchiveTops :
          /\ dirName' = unpackedDirName
          /\ pc' = "access"
          /\ report' = report
     \/ /\ dirName' = dirName
        /\ pc' = "done"
        /\ report' = "fatal: tar failed"
  /\ baseUrls' = <<>> /\ filenames' = <<>> /\ bi' = 0 /\ fi' = 0
  /\ probed' = <<>> /\ failed' = {} /\ downloadedFrom' = NoCandidate
  /\ UNCHANGED <<persistent, archive, cmd, alias, rename, flag>>

\* Mutant: the check finds nothing.
exists_never(f, path) == FALSE

\* fs.access(path) succeeds.
exists(f, path) == f[path] # "absent"

\* Mutant: the alias is assigned before the return of the conflict.
Access_thenAlias ==
  /\ pc = "access"
  /\ UNCHANGED <<resolveVars, planVars, markerVars>>
  /\ IF exists(fs, dirName)
     THEN /\ report' = "error: already installed"
          /\ archive' = "deleted"
          /\ pc' = "done"
          /\ \E dirs \in readdir(fs) :
               aliases' = IF alias # "" THEN handleAlias(alias, dirName, aliases, dirs).aliases
                          ELSE aliases
     ELSE /\ pc' = "mkdir"
          /\ UNCHANGED <<report, archive, aliases>>
  /\ UNCHANGED <<fs, link, cmd, alias, download, dirName, rename, flag>>

\* fs.access(finalInstallPath): already installed, or go on.
Access ==
  /\ pc = "access"
  /\ UNCHANGED <<resolveVars, planVars, markerVars>>
  /\ IF exists(fs, dirName)
     THEN /\ report' = "error: already installed"
          /\ archive' = "deleted"
          /\ pc' = "done"
     ELSE /\ pc' = "mkdir"
          /\ UNCHANGED <<report, archive>>
  /\ UNCHANGED <<persistent, cmd, alias, download, dirName, rename, flag>>

\* fs.mkdir(tempInstallPath, { recursive: true })
Mkdir ==
  /\ pc = "mkdir"
  /\ UNCHANGED <<resolveVars, planVars, markerVars>>
  /\ fs' = [fs EXCEPT ![tempInstallPath(dirName)] = IF @ = "absent" THEN "partial" ELSE @]
  /\ pc' = "extract"
  /\ UNCHANGED <<aliases, link, archive, cmd, report, alias, download, dirName, rename, flag>>

\* tar -xf downloadedFile --strip-components=1 -C tempInstallPath
Extract ==
  /\ pc = "extract"
  /\ UNCHANGED <<resolveVars, planVars, markerVars>>
  /\ \/ /\ fs' = [fs EXCEPT ![tempInstallPath(dirName)] = "complete"]
        /\ pc' = "rename"
        /\ report' = report
     \/ /\ fs' = [fs EXCEPT ![tempInstallPath(dirName)] = "partial"]
        /\ pc' = "done"
        /\ report' = "fatal: tar failed"
  /\ UNCHANGED <<aliases, link, archive, cmd, alias, download, dirName, rename, flag>>

\* fs.rename(oldPath, newPath) when it succeeds.
renamed(f, oldPath, newPath) == [f EXCEPT ![newPath] = f[oldPath], ![oldPath] = "absent"]

\* Mutant: every error is retried, whatever its code.
mayRetry_anyError(code, n) == n < retries - 1

\* Mutant: the retry test off by one (i < retries).
mayRetry_offByOne(code, n) == code = "EPERM" /\ n < retries

\* The catch block of renameWithRetry: warn and try again, or rethrow.
mayRetry(code, n) == code = "EPERM" /\ n < retries - 1

\* One turn of the loop of renameWithRetry.
Rename ==
  /\ pc = "rename"
  /\ UNCHANGED <<resolveVars, planVars, markerVars>>
  /\ i < retries
  /\ \E e \in {"ok", "EPERM", "EBUSY"} :
       IF e = "ok"
       THEN /\ fs' = renamed(fs, tempInstallPath(dirName), dirName)
            /\ pc' = "unlink"
            /\ UNCHANGED <<i, warnings, errCode, report>>
       ELSE IF mayRetry(e, i)
       THEN /\ warnings' = warnings + 1
            /\ i' = i + 1
            /\ errCode' = e
            /\ UNCHANGED <<fs, pc, report>>
       ELSE /\ pc' = "done"
            /\ report' = "fatal: rename failed " \o e
            /\ errCode' = e
            /\ UNCHANGED <<fs, i, warnings>>
  /\ UNCHANGED <<aliases, link, archive, cmd, alias, download, dirName, flag>>

\* fs.unlink(downloadedFile)
Unlink ==
  /\ pc = "unlink"
  /\ UNCHANGED <<resolveVars, planVars, markerVars>>
  /\ archive' = "deleted"
  /\ IF alias # "" THEN pc' = "install_alias" /\ report' = report
     ELSE pc' = "done" /\ report' = "ok"
  /\ UNCHANGED <<persistent, cmd, alias, download, dirName, rename, flag>>

\* if (alias) await handleAlias(alias, unpackedDirName)
InstallAlias ==
  /\ pc = "install_alias"
  /\ UNCHANGED <<resolveVars, planVars, markerVars>>
  /\ \E dirs \in readdir(fs) :
       aliases' = handleAlias(alias, dirName, aliases, dirs).aliases
  /\ pc' = "done"
  /\ report' = "ok"
  /\ UNCHANGED <<fs, link, archive, cmd, alias, download, dirName, rename, flag>>

InstallPcs == {"probe", "get", "tar_list", "access", "mkdir", "extract", "rename",
               "unlink", "install_alias"}

\* The process is killed while handleInstall runs: the files stay as they
\* are, what attemptDownload held in memory is gone.  A tar killed while it
\* extracts leaves what it had written so far.
Interrupt ==
  /\ pc \in InstallPcs
  /\ UNCHANGED <<resolveVars, planVars, markerVars>>
  /\ pc' = "done"
  /\ report' = "interrupted at " \o pc
  /\ fs' \in (IF pc = "extract"
              THEN {fs, [fs EXCEPT ![tempInstallPath(dirName)] = "partial"]}
              ELSE {fs})
  /\ baseUrls' = <<>> /\ filenames' = <<>> /\ bi' = 0 /\ fi' = 0
  /\ probed' = <<>> /\ failed' = {} /\ downloadedFrom' = NoCandidate
  /\ UNCHANGED <<aliases, link, archive, cmd, alias, dirName, rename, flag>>

\* The process exits; the next invocation starts from the files alone.
Exit ==
  /\ pc = "done"
  /\ UNCHANGED <<resolveVars, planVars, markerVars>>
  /\ pc' = "idle"
  /\ cmd' = "none"
  /\ report' = "none"
  /\ Locals("", Null, FALSE)
  /\ UNCHANGED persistent

\* ---------------------------------------------------------- specifications
\* The versions asked for in Spec ("" when the argument is missing).
Versions == {"0.1.0", ""}

Next ==
  \/ \E v \in Versions, a \in AliasNames \cup {""} : InstallStart(v, a, MirrorDocs(MaxMirrorLines))
  \/ Probe
  \/ Get
  \/ TarList
  \/ Access
  \/ Mkdir
  \/ Extract
  \/ Rename
  \/ Unlink
  \/ InstallAlias
  \/ Interrupt
  \/ \E t \in Tokens \cup {""} : Use(t)
  \/ Deactivate
  \/ \E n \in AliasNames, t \in Tokens \cup {"--unset"} : Alias(n, t)
  \/ \E t \in Tokens : RemoveStart(t)
  \/ RemoveDeactivate
  \/ RemoveRm
  \/ RemoveAliases
  \/ Exit

Spec == Init /\ [][Next]_vars

\* ------------------------------------------------ resolveVersion on its own
\* Most entries readdir returns.
MaxDirs == 3
ResolveNames == {"zig-1", "zig-12", "zig-1.tmp", "zig-2"}
ResolveTokens == AliasNames \cup {"zig-12", "1", "zig-3", ""}
\* What an alias file can hold: any alias name mapped to any name, installed
\* or not.
Stores == UNION {[S -> ResolveNames \cup {"zig-3"}] : S \in SUBSET AliasNames}
Listings(n) ==
  UNION {orderings(S) : S \in {T \in SUBSET ResolveNames : Cardinality(T) <= n}}

\* readdir returns, or the root is missing, or it cannot be read.
ReaddirCodes == {"none", "ENOENT", "EACCES"}

InitResolve ==
  /\ fs = [d \in AllDirs |-> "absent"]
  /\ aliases \in Stores
  /\ link = NoLink
  /\ AtRest
  /\ PlanAtRest
  /\ MarkerAtRest
  /\ rToken \in ResolveTokens
  /\ rCode \in ReaddirCodes
  /\ rDirs \in (IF rCode = "none" THEN Listings(MaxDirs) ELSE {<<>>})
  /\ rResult = Null

\* resolveVersion(rToken) with the alias file `aliases` and the listing rDirs.
Resolve ==
  /\ pc = "idle"
  /\ rResult' = resolveVersionCatch(rToken, aliases, rCode, rDirs)
  /\ pc' = "done"
  /\ cmd' = "resolve"
  /\ UNCHANGED <<persistent, archive, report, alias, download, dirName, rename, flag,
                 rToken, rDirs, rCode, planVars, markerVars>>

NextResolve == Resolve

SpecResolve == InitResolve /\ [][NextResolve]_vars

\* -------------------------------------------- getZigPackageInfo on its own
\* Longest version string typed, and the characters it is typed with.
MaxVersionLen == 8
VersionChars == {"1", ".", " "}
RECURSIVE VersionStrings(_)
VersionStrings(n) ==
  IF n = 0 THEN {""}
  ELSE LET shorter == VersionStrings(n - 1)
       IN shorter \cup {s \o c : s \in shorter, c \in VersionChars}
\* Versions as the readme writes them, and some that are none.
TypedVersions == {"0.14.1", "0.14.1 ", "v0.14.1", "0.14", "master",
                  "0.15.0-dev.1175+e4abdf5a1"}

InitLocate ==
  /\ fs = [d \in AllDirs |-> "absent"]
  /\ aliases = NoAliases
  /\ link = NoLink
  /\ AtRest
  /\ rToken = "" /\ rDirs = <<>> /\ rCode = "none" /\ rResult = Null
  /\ MarkerAtRest
  /\ zVersion \in VersionStrings(MaxVersionLen) \cup TypedVersions
  /\ zInfo = NoInfo
  /\ zResponse = NoResponse
  /\ zBaseUrls = <<>>

\* getZigPackageInfo(zVersion)
Locate ==
  /\ pc = "idle"
  /\ zInfo' = getZigPackageInfo(zVersion)
  /\ pc' = "done"
  /\ cmd' = "locate"
  /\ UNCHANGED <<persistent, archive, report, alias, download, dirName, rename, flag,
                 resolveVars, zVersion, zResponse, zBaseUrls, markerVars>>

NextLocate == Locate

SpecLocate == InitLocate /\ [][NextLocate]_vars

\* ----------------------------------------- the base URLs of an install alone
\* The versions the base URLs are built for.
MirrorVersions == {"0.14.1", "0.14.1 ", "0.13.0", "0.15.0-dev.1175+e4abdf5a1"}

InitMirrors ==
  /\ fs = [d \in AllDirs |-> "absent"]
  /\ aliases = NoAliases
  /\ link = NoLink
  /\ AtRest
  /\ rToken = "" /\ rDirs = <<>> /\ rCode = "none" /\ rResult = Null
  /\ MarkerAtRest
  /\ zVersion \in MirrorVersions
  /\ zInfo = NoInfo
  /\ zResponse = NoResponse
  /\ zBaseUrls = <<>>

\* handleInstall from getZigPackageInfo to downloadBaseUrls.
FetchMirrors ==
  /\ pc = "idle"
  /\ zInfo' = getZigPackageInfo(zVersion)
  /\ \E response \in Responses(MirrorDocs(MaxMirrorLines)) :
       /\ zResponse' = response
       /\ zBaseUrls' = downloadBaseUrls(response, zInfo'.canonicalUrl)
  /\ pc' = "done"
  /\ cmd' = "mirrors"
  /\ UNCHANGED <<persistent, archive, report, alias, download, dirName, rename, flag,
                 resolveVars, zVersion, markerVars>>

NextMirrors == FetchMirrors

SpecMirrors == InitMirrors /\ [][NextMirrors]_vars

\* ------------------------------------------------ attemptDownload on its own
\* attemptDownload(downloadBaseUrls, potentialFilenames) is called: any base
\* URLs handleInstall can build, the two filenames of a version.
InitDownload ==
  /\ fs = [d \in AllDirs |-> "absent"]
  /\ aliases = NoAliases
  /\ link = NoLink
  /\ PlanAtRest
  /\ MarkerAtRest
  /\ rToken = "" /\ rDirs = <<>> /\ rCode = "none" /\ rResult = Null
  /\ archive = "none" /\ cmd = "install" /\ report = "none" /\ alias = ""
  /\ dirName = Null /\ i = 0 /\ warnings = 0 /\ errCode = "none" /\ flag = FALSE
  /\ probed = <<>> /\ failed = {} /\ downloadedFrom = NoCandidate
  /\ \E v \in MirrorVersions, response \in Responses(MirrorDocs(MaxMirrorLines)) :
       /\ baseUrls = downloadBaseUrls(response, getZigPackageInfo(v).canonicalUrl)
       /\ filenames = getZigPackageInfo(v).potentialFilenames
  /\ bi = 1 /\ fi = 1
  /\ pc = "probe"

NextDownload == Probe \/ Get

\* Every HEAD and every GET returns or throws in the end.
SpecDownload ==
  InitDownload /\ [][NextDownload]_vars /\ WF_vars(Probe) /\ WF_vars(Get)

\* -------------------------------------------- use without a version argument
\* Deepest working directory, and what a .zig-version file holds.
MaxDepth == 2
MarkerContents == {"zig-1", " zig-12 ", "zig-3 ", "  "}

\* Two versions are installed, and one of them may be active.
InitUse ==
  /\ fs = [d \in AllDirs |-> IF d \in ArchiveTops THEN "complete" ELSE "absent"]
  /\ aliases = NoAliases
  /\ link \in {NoLink, "zig-1"}
  /\ AtRest
  /\ PlanAtRest
  /\ rToken = "" /\ rDirs = <<>> /\ rCode = "none" /\ rResult = Null
  /\ cwd \in 0..MaxDepth
  /\ markers \in [0..cwd -> MarkerContents \cup {NoMarker, Unreadable}]
  /\ currentDir = 0

NextUse == UseWalkStart \/ Walk

\* Every read of a .zig-version file returns or throws in the end.
SpecUse == InitUse /\ [][NextUse]_vars /\ WF_vars(Walk)

\* ------------------------------------------------------------------ claims
\* A report that starts with "error:" or "info:" is a message the handler
\* logs before it returns; one that starts with "fatal:" is an exception that
\* reaches main().catch.

Range(s) == {s[k] : k \in 1..Len(s)}
endsWith(s, t) == Len(s) >= Len(t) /\ SubSeq(s, Len(s) - Len(t) + 1, Len(s)) = t

\* The (base URL, filename) pairs in the order of the claim: base URLs
\* outermost, filenames innermost.
allCandidates(bs, fns) ==
  [k \in 1..(Len(bs) * Len(fns)) |->
     [base |-> bs[((k - 1) \div Len(fns)) + 1], file |-> fns[((k - 1) % Len(fns)) + 1]]]

\* C1: whatever an install run does, and wherever it is interrupted or fails,
\* a final installed path is absent or holds a complete payload; a partial
\* payload is only ever found under a name ending in ".tmp".
FinalPathNeverPartial ==
  /\ \A d \in ArchiveTops : fs[d] \in {"absent", "complete"}
  /\ \A d \in DOMAIN fs : fs[d] = "partial" => endsWith(d, ".tmp")

\* C1 witness: an install killed after the extraction and before the rename;
\* the payload is complete in the staging directory and the final path is absent.
InterruptedBeforeRename ==
  /\ cmd = "install" /\ pc = "done" /\ report = "interrupted at rename"
  /\ fs[dirName \o ".tmp"] = "complete"
  /\ fs[dirName] = "absent"

\* C2 (as claimed): the active link is absent or targets an installed
\* version, a complete directory that is no staging directory.
ActiveLinkTargetsInstalledVersion ==
  link = NoLink \/ (link \in ArchiveTops /\ fs[link] = "complete")

DownloadFatalIffExhausted ==
  LET all == Range(allCandidates(baseUrls, filenames))
  IN baseUrls # <<>> =>
       /\ (pc = "done" /\ report = "fatal: download failed") <=> failed = all
       /\ failed # all => pc \in {"probe", "get", "tar_list"} /\ report = "none"
       /\ pc = "probe" => failed = Range(probed) /\ candidate \notin failed
       /\ pc = "get" => failed = Range(probed) \ {candidate}

\* C4 witness: two mirrors and the canonical source, all six pairs failed.
AllSourcesExhausted ==
  /\ pc = "done" /\ report = "fatal: download failed"
  /\ Len(baseUrls) = 3
  /\ Cardinality(failed) = 6

\* C5 (amended): a rename that fails with EPERM k times (k <= 4) and then
\* succeeds ends in success with exactly k warnings; the 5th consecutive EPERM
\* failure is fatal, after 4 warnings, and no 6th attempt is made.
RenameRetryFifthFailureFatal ==
  /\ pc = "rename" => i < retries /\ warnings = i
  /\ (cmd = "install" /\ (pc \in {"unlink", "install_alias"} \/ (pc = "done" /\ report = "ok")))
       => warnings = i /\ i <= 4
  /\ (pc = "done" /\ report = "fatal: rename failed EPERM") => i = 4 /\ warnings = 4

\* C5 witness: four EPERM failures, success at the 5th attempt, 4 warnings.
RenamedAtFifthAttempt ==
  /\ cmd = "install" /\ pc = "done" /\ report = "ok"
  /\ i = 4 /\ warnings = 4
  /\ fs[dirName] = "complete"

\* C5 (as claimed): as above, but a 6th consecutive failure is the fatal one,
\* that is, the rename gives up at its 6th failure and not before (i counts
\* the failures before the current attempt).
RenameRetrySixthFailureFatal ==
  /\ (cmd = "install" /\ (pc \in {"unlink", "install_alias"} \/ (pc = "done" /\ report = "ok")))
       => warnings = i /\ i <= 4
  /\ (pc = "done" /\ report = "fatal: rename failed EPERM") => i + 1 = 6

\* C6: when the final directory already exists, the install changes no
\* directory (no staging directory, no extraction, no rename), removes the
\* downloaded archive and returns with the conflict message; no step of an
\* install before that check touches a directory either.
AlreadyInstalledIsConflict ==
  [][ /\ (pc \in {"probe", "get", "tar_list", "access"}) => fs' = fs
      /\ (pc = "access" /\ fs[dirName] # "absent" /\ report' # "interrupted at access") =>
           /\ persistent' = persistent
           /\ archive' = "deleted"
           /\ pc' = "done"
           /\ report' = "error: already installed" ]_vars

\* C6 witness: an install that ended in the conflict: the directory is still
\* complete, no staging directory was made, the archive is deleted.
ConflictReported ==
  /\ cmd = "install" /\ pc = "done" /\ report = "error: already installed"
  /\ archive = "deleted"
  /\ fs[dirName] = "complete"
  /\ fs[dirName \o ".tmp"] = "absent"

\* C7: removing the active version: the link is removed while the directory
\* is still there, the directory is deleted while the aliases are still
\* there, then the aliases of that directory, and only they, are removed.
RemoveActiveInOrder ==
  /\ [](cmd = "remove" /\ flag =>
          /\ pc = "rm_deactivate" => link = dirName /\ fs[dirName] # "absent"
          /\ pc = "rm_rm" => link = NoLink /\ fs[dirName] # "absent"
          /\ pc = "rm_aliases" => link = NoLink /\ fs[dirName] = "absent"
          /\ pc = "done" => /\ link = NoLink
                            /\ fs[dirName] = "absent"
                            /\ \A a \in DOMAIN aliases : aliases[a] # dirName)
  /\ [][cmd = "remove" /\ flag =>
          /\ pc \in {"rm_deactivate", "rm_rm"} => aliases' = aliases
          /\ pc = "rm_rm" => \A d \in DOMAIN fs : d # dirName => fs'[d] = fs[d]
          /\ pc # "rm_rm" => fs' = fs
          /\ pc = "rm_aliases" =>
               /\ DOMAIN aliases' = {a \in DOMAIN aliases : aliases[a] # dirName}
               /\ \A a \in DOMAIN aliases' : aliases'[a] = aliases[a] ]_vars

\* C7 witness: the active version is being removed, link and directory are
\* gone, one alias names the directory and another one does not.
RemovingActiveWithAliases ==
  /\ cmd = "remove" /\ flag /\ pc = "rm_aliases"
  /\ link = NoLink /\ fs[dirName] = "absent"
  /\ \E a, b \in DOMAIN aliases : aliases[a] = dirName /\ aliases[b] # dirName

\* C8: after use has activated directory d, the link targets d, whether or
\* not a link was there before.
UseActivatesTarget ==
  (cmd = "use" /\ pc = "done" /\ dirName # Null) => link = dirName /\ report = "ok"

\* C8 witness: a use that replaced a link that was there.
UseReplacedLink ==
  /\ cmd = "use" /\ pc = "done" /\ flag
  /\ dirName \in ArchiveTops /\ link = dirName /\ fs[dirName] = "complete"

\* C9: deactivate ends with no link; it changes nothing else, and with no
\* link to remove it reports that as information and does not throw.
DeactivateEndsInactive ==
  /\ [](cmd = "deactivate" /\ pc = "done" =>
          /\ link = NoLink
          /\ report \in {"deactivated", "info: no version is currently active"})
  /\ [][(pc = "idle" /\ cmd' = "deactivate") =>
          /\ link' = NoLink
          /\ fs' = fs /\ aliases' = aliases
          /\ report' = IF link = NoLink THEN "info: no version is currently active"
                       ELSE "deactivated" ]_vars

\* C9 witness: deactivate ran with no link and reported it as information.
DeactivatedWhenInactive ==
  /\ cmd = "deactivate" /\ pc = "done" /\ ~flag
  /\ link = NoLink /\ report = "info: no version is currently active"

\* C10: a token the alias file maps to d resolves to d whenever d is listed,
\* whatever else is listed.
AliasResolvesToItsTarget ==
  (cmd = "resolve" /\ pc = "done" /\ rToken \in DOMAIN aliases
     /\ aliases[rToken] \in Range(rDirs))
    => rResult = aliases[rToken]

\* C10 witness: the alias's directory is listed after a directory whose name
\* contains it.
AliasResolvedAmongSuperstrings ==
  /\ cmd = "resolve" /\ pc = "done" /\ rToken \in DOMAIN aliases
  /\ Len(rDirs) >= 2
  /\ rDirs[1] # aliases[rToken] /\ includes(rDirs[1], aliases[rToken])
  /\ aliases[rToken] \in Range(rDirs)
  /\ rResult = aliases[rToken]

\* C11 (as claimed): the name of a listed directory resolves to itself,
\* whatever the alias file holds.
ExactNameResolvesWhateverAliases ==
  (cmd = "resolve" /\ pc = "done" /\ rCode = "none" /\ rToken \in Range(rDirs))
    => rResult = rToken

\* C11 (amended): the name d of a listed directory resolves to d, whatever
\* else is listed, for every alias file that does not map the name d to
\* another name.
ExactNameResolvesUnlessAliased ==
  (cmd = "resolve" /\ pc = "done" /\ rCode = "none" /\ rToken \in Range(rDirs)
     /\ (rToken \in DOMAIN aliases => aliases[rToken] = rToken))
    => rResult = rToken

\* C11 witness: the exact name is listed after a directory whose name contains
\* it, the alias file is not empty, and the exact name is the result.
ExactNameResolvedAmongSuperstrings ==
  /\ cmd = "resolve" /\ pc = "done" /\ rCode = "none"
  /\ rToken \notin DOMAIN aliases /\ DOMAIN aliases # {}
  /\ Len(rDirs) >= 2
  /\ rDirs[1] # rToken /\ includes(rDirs[1], rToken)
  /\ rToken \in Range(rDirs)
  /\ rResult = rToken

\* C12: on an empty or a missing installation root every token resolves to
\* not-found, whatever the alias file holds, and nothing is thrown.
EmptyOrMissingRootIsNotFound ==
  (cmd = "resolve" /\ pc = "done"
     /\ (rCode = "ENOENT" \/ (rCode = "none" /\ rDirs = <<>>)))
    => rResult = Null

\* C12 witness: the root is missing, the token is an alias, and the result is
\* not-found.
MissingRootResolvedNotFound ==
  /\ cmd = "resolve" /\ pc = "done" /\ rCode = "ENOENT"
  /\ rToken \in DOMAIN aliases
  /\ rResult = Null

\* C13: a user error ends the operation with nothing mutated.  An install
\* whose alias name is in use ends at once with that error, before any
\* download; use, alias and remove of a token that resolves to not-found end
\* with their error; and each leaves the installation root, the alias file
\* and the active link as they were.
UserErrors == {"error: alias in use", "error: not installed",
               "error: version not found", "error: not found"}
UserErrorMutatesNothing ==
  /\ [][(pc = "idle" /\ pc' = "done" /\ report' \in UserErrors) =>
          /\ fs' = fs /\ aliases' = aliases /\ link' = link
          /\ archive' = "none" /\ probed' = <<>> ]_vars
  /\ [][(pc = "idle" /\ cmd' = "install" /\ alias' \in DOMAIN aliases) =>
          /\ pc' = "done"
          /\ report' \in {"error: alias in use", "error: no version"}
          /\ archive' = "none" /\ probed' = <<>> /\ baseUrls' = <<>> ]_vars
  /\ [][(pc = "idle" /\ cmd' \in {"use", "remove"}
           /\ \A d \in DOMAIN fs : fs[d] = "absent") =>
          /\ pc' = "done"
          /\ report' \in UserErrors \cup {"error: no version specified"}
          /\ fs' = fs /\ aliases' = aliases /\ link' = link ]_vars

\* C13 witness: an install whose alias name was in use ended with that error
\* while a version was active, with no archive and nothing probed.
InstallRefusedAliasInUse ==
  /\ cmd = "install" /\ pc = "done" /\ report = "error: alias in use"
  /\ alias \in DOMAIN aliases /\ link # NoLink
  /\ archive = "none" /\ probed = <<>>

\* MAJOR.MINOR.PATCH: digits, a dot, digits, a dot, digits.
isMajorMinorPatch(s) ==
  LET dots == {k \in 1..Len(s) : charAt(s, k) = "."}
  IN /\ Cardinality(dots) = 2
     /\ \A k \in (1..Len(s)) \ dots : charAt(s, k) \in Digits
     /\ \A k \in dots : k > 1 /\ k < Len(s) /\ k + 1 \notin dots

\* Where v has a valid MAJOR.MINOR.PATCH substring: <<first, last>> positions.
validSubstrings(v) ==
  {ab \in (1..Len(v)) \X (1..Len(v)) :
     ab[1] <= ab[2] /\ isMajorMinorPatch(SubSeq(v, ab[1], ab[2]))}

\* The two candidate filenames of a normalized version on linux/x86_64.
filenamesOf(norm) ==
  << "zig-linux-x86_64-" \o norm \o ".tar.xz", "zig-x86_64-linux-" \o norm \o ".tar.xz" >>

\* C14 (as claimed): for a version without "-dev" that has a valid
\* MAJOR.MINOR.PATCH substring, both filenames are built from a longest one.
NormalizedIsLongestSubstring ==
  (cmd = "locate" /\ pc = "done" /\ ~includes(zVersion, "-dev")
     /\ validSubstrings(zVersion) # {})
    => \E ab \in validSubstrings(zVersion) :
         /\ \A cd \in validSubstrings(zVersion) : cd[2] - cd[1] <= ab[2] - ab[1]
         /\ ~zInfo.threw
         /\ zInfo.potentialFilenames = filenamesOf(SubSeq(zVersion, ab[1], ab[2]))

\* C14 (amended): for a version without "-dev" that has a valid
\* MAJOR.MINOR.PATCH substring, both filenames are built from the leftmost
\* one, taken as long as it goes from where it starts; nothing around it
\* reaches the filenames.
NormalizedIsLeftmostSubstring ==
  (cmd = "locate" /\ pc = "done" /\ ~includes(zVersion, "-dev")
     /\ validSubstrings(zVersion) # {})
    => \E ab \in validSubstrings(zVersion) :
         /\ \A cd \in validSubstrings(zVersion) :
              ab[1] < cd[1] \/ (ab[1] = cd[1] /\ cd[2] <= ab[2])
         /\ ~zInfo.threw
         /\ zInfo.potentialFilenames = filenamesOf(SubSeq(zVersion, ab[1], ab[2]))

\* C14 witness: a version typed with something before it and a blank after it.
NormalizedDecoratedVersion ==
  /\ cmd = "locate" /\ pc = "done"
  /\ zVersion = " 1.1.1 "
  /\ zInfo.potentialFilenames = filenamesOf("1.1.1")

\* C15: the rename is attempted at most 5 times in an install; another
\* attempt follows only a failure with EPERM, and comes with one warning; any
\* other error is rethrown at once, with no retry and no warning; the 5th
\* EPERM in a row is rethrown; and a rethrown error leaves the staging
\* directory in place and nothing at the final path.
RenameRetriesOnlyEperm ==
  /\ [](pc = "rename" => i < 5)
  /\ [][(pc = "rename" /\ pc' = "rename") =>
          /\ errCode' = "EPERM"
          /\ i' = i + 1 /\ warnings' = warnings + 1 /\ fs' = fs ]_vars
  /\ [][(pc = "rename" /\ report' = "fatal: rename failed EBUSY") =>
          /\ pc' = "done" /\ errCode' = "EBUSY"
          /\ i' = i /\ warnings' = warnings /\ fs' = fs ]_vars
  /\ [](report = "fatal: rename failed EPERM" =>
          /\ pc = "done" /\ errCode = "EPERM" /\ i = 4 /\ warnings = 4)
  /\ [](report \in {"fatal: rename failed EPERM", "fatal: rename failed EBUSY"} =>
          /\ fs[dirName \o ".tmp"] = "complete"
          /\ fs[dirName] = "absent")

\* C15 witness: the rename failed twice with EPERM and was tried again, then
\* failed with another error, which ended the install with no third warning.
RenameRethrewOtherError ==
  /\ cmd = "install" /\ pc = "done" /\ report = "fatal: rename failed EBUSY"
  /\ errCode = "EBUSY" /\ i = 2 /\ warnings = 2
  /\ fs[dirName \o ".tmp"] = "complete" /\ fs[dirName] = "absent"

\* The lines of a document that start with "https://", in the order they
\* have in it.
RECURSIVE httpsLines(_)
httpsLines(lines) ==
  IF lines = <<>> THEN <<>>
  ELSE (IF Len(lines[1]) >= 8 /\ SubSeq(lines[1], 1, 8) = "https://"
        THEN <<lines[1]>> ELSE <<>>) \o httpsLines(Tail(lines))

\* The canonical URL of a version: the builds directory for a development
\* build, else the download directory of the version as it was typed.
canonicalUrlOf(v) ==
  IF includes(v, "-dev") THEN "https://ziglang.org/builds"
  ELSE "https://ziglang.org/download/" \o v

\* C16: the base URLs handed to the downloader are the lines of the mirror
\* list that start with "https://", in the order of the list, and then the
\* canonical URL, last and once; they are the canonical URL alone when the
\* list cannot be fetched or the response is not ok.
BaseUrlsAreMirrorsThenCanonical ==
  (cmd = "mirrors" /\ pc = "done") =>
    /\ zResponse[1] = "ok" =>
         zBaseUrls = httpsLines(zResponse[2]) \o <<canonicalUrlOf(zVersion)>>
    /\ zResponse[1] # "ok" => zBaseUrls = <<canonicalUrlOf(zVersion)>>
    /\ zBaseUrls[Len(zBaseUrls)] = canonicalUrlOf(zVersion)

\* C16 witness: the list holds a line that is not https and then one that
\* is; that one alone is kept and the canonical URL comes after it.
BaseUrlsSkipInsecureLine ==
  /\ cmd = "mirrors" /\ pc = "done" /\ zResponse[1] = "ok"
  /\ Len(zResponse[2]) = 2
  /\ ~startsWith(zResponse[2][1], "https://")
  /\ startsWith(zResponse[2][2], "https://")
  /\ zBaseUrls = <<zResponse[2][2], canonicalUrlOf(zVersion)>>

\* C17: when an install that obtained an archive ends (committed, refused
\* because the version is already installed, or failed at the listing, the
\* extraction or the rename), the temporary archive no longer exists.
ArchiveGoneWhenInstallEnds ==
  (cmd = "install" /\ pc = "done"
     /\ report \in {"ok", "error: already installed", "fatal: tar failed",
                    "fatal: rename failed EPERM", "fatal: rename failed EBUSY"})
    => archive # "exists"

\* C18: no step of an install or of an alias command, whether it succeeds or
\* fails, changes the active link; a step of a remove changes it only when
\* it points to the directory being removed, and then removes it; a link to
\* any other version stays as it is.
OnlyActivationMutatesLink ==
  /\ [][cmd' \in {"install", "alias"} => link' = link]_vars
  /\ [][cmd' = "remove" =>
          \/ link' = link
          \/ link = dirName' /\ link' = NoLink ]_vars

\* C18 witness: a version was removed while another one was active, and the
\* link still points to that other one.
RemovedInactiveKeptLink ==
  /\ cmd = "remove" /\ pc = "done" /\ report = "ok"
  /\ link # NoLink /\ link # dirName /\ ~flag
  /\ fs[dirName] = "absent" /\ fs[link] = "complete"

\* t occurs in s.
contains(s, t) ==
  \E a \in 0..Len(s) : a + Len(t) <= Len(s) /\ SubSeq(s, a + 1, a + Len(t)) = t

\* The target of the resolved token: its alias value if it is an alias, else
\* the token; and the positions of the listing whose name contains it.
rTarget == IF rToken \in DOMAIN aliases THEN aliases[rToken] ELSE rToken
rMatches == {k \in 1..Len(rDirs) : contains(rDirs[k], rTarget)}

\* C19: a token (not empty: no handler resolves an empty one) resolves to
\* not-found exactly when no listed name contains its target; otherwise the
\* result is a listed name that contains the target, and it is the first such
\* name of the listing when several contain it and none is the target itself.
ResolveIsFirstMatchUnlessExact ==
  (cmd = "resolve" /\ pc = "done" /\ rToken # "" /\ rCode \in {"none", "ENOENT"}) =>
    /\ rResult = Null <=> rMatches = {}
    /\ rMatches # {} => \E k \in rMatches : rResult = rDirs[k]
    /\ (Cardinality(rMatches) >= 2 /\ \A k \in rMatches : rDirs[k] # rTarget) =>
         \E k \in rMatches : /\ rResult = rDirs[k]
                              /\ \A j \in rMatches : k <= j

\* C19 witness: three listed names contain the target, none is the target,
\* and the result is the first of the listing.
ResolvedFirstOfThreeMatches ==
  /\ cmd = "resolve" /\ pc = "done" /\ rCode = "none"
  /\ Len(rDirs) = 3 /\ rMatches = {1, 2, 3}
  /\ rTarget \notin Range(rDirs)
  /\ rResult = rDirs[1]

\* C20: after a successful install with alias a, which was not in the alias
\* file, the file maps a to the directory just installed, whatever other
\* directories and aliases exist, and every other alias is as it was.
InstallAliasNamesInstalledDir ==
  /\ [](cmd = "install" /\ pc = "done" /\ report = "ok" /\ alias # "" =>
          /\ fs[dirName] = "complete"
          /\ alias \in DOMAIN aliases
          /\ aliases[alias] = dirName)
  /\ [][pc = "install_alias" /\ pc' = "done" /\ report' = "ok" =>
          /\ alias \notin DOMAIN aliases
          /\ \A a \in DOMAIN aliases : a \in DOMAIN aliases' /\ aliases'[a] = aliases[a]
          /\ DOMAIN aliases' \subseteq DOMAIN aliases \cup {alias} ]_vars

\* C21: between operations (none is running), every alias of the alias file
\* names a directory that exists under the installation root.
AliasTargetsExist ==
  pc \in {"idle", "done"} =>
    \A a \in DOMAIN aliases : aliases[a] \in DOMAIN fs /\ fs[aliases[a]] # "absent"

\* C22: a token that is an alias whose directory is not listed (a dangling
\* alias) resolves to not-found: nothing is thrown and no other directory is
\* the result.
DanglingAliasIsNotFound ==
  (cmd = "resolve" /\ pc = "done" /\ rCode \in {"none", "ENOENT"}
     /\ rToken \in DOMAIN aliases /\ aliases[rToken] \notin Range(rDirs))
    => rResult = Null

\* C23: a download ends: no pair is probed twice, at most
\* |baseUrls| x |filenames| probes are made, and in the end attemptDownload
\* has returned a downloaded file or thrown its terminal error.
DownloadTerminates ==
  /\ [](Len(probed) <= Len(baseUrls) * Len(filenames))
  /\ [](\A a, b \in 1..Len(probed) : a # b => probed[a] # probed[b])
  /\ <>(pc \notin {"probe", "get"})
  /\ [](pc \notin {"probe", "get"} =>
          \/ pc = "tar_list" /\ archive = "exists" /\ downloadedFrom # NoCandidate
          \/ pc = "done" /\ report = "fatal: download failed")

\* C23 witness: with two mirrors and the canonical source, the download came
\* from the sixth and last pair, after six probes.
DownloadedFromLastPair ==
  /\ pc = "tar_list" /\ archive = "exists"
  /\ Len(baseUrls) = 3 /\ Len(filenames) = 2
  /\ Len(probed) = 6
  /\ downloadedFrom = [base |-> baseUrls[3], file |-> filenames[2]]

\* A string without its blanks.
RECURSIVE withoutBlanks(_)
withoutBlanks(s) ==
  IF Len(s) = 0 THEN ""
  ELSE (IF SubSeq(s, 1, 1) = " " THEN "" ELSE SubSeq(s, 1, 1))
         \o withoutBlanks(SubSeq(s, 2, Len(s)))

\* The nearest directory, from cwd up, that has a .zig-version file; -1 when
\* no ancestor has one.
nearestMarker ==
  LET with == {k \in 0..cwd : markers[k] # NoMarker}
  IN IF with = {} THEN -1 ELSE CHOOSE k \in with : \A j \in with : j <= k

\* C24: use without a token looks for the marker file in the working
\* directory, then in each parent in turn up to the root, and always ends.
\* It takes the version of the nearest directory that has a marker (that
\* version is activated if installed, else it is a user error and the link
\* stays); with no marker up to the root it reports a user error and leaves
\* the link as it was.
UseWithoutTokenTakesNearestMarker ==
  /\ [][(pc = "idle" /\ pc' = "walk") => currentDir' = cwd]_vars
  /\ [][(pc = "walk" /\ pc' = "walk") =>
          /\ markers[currentDir] = NoMarker
          /\ currentDir > 0 /\ currentDir' = currentDir - 1
          /\ link' = link ]_vars
  /\ (pc = "walk") ~> (pc = "done")
  /\ [][(pc = "walk" /\ pc' = "done") =>
          IF nearestMarker = -1
          THEN /\ currentDir = 0
               /\ report' = "error: no version specified"
               /\ link' = link
          ELSE /\ currentDir = nearestMarker
               /\ markers[nearestMarker] # Unreadable =>
                    LET v == withoutBlanks(markers[nearestMarker])
                    IN /\ v \in ArchiveTops => report' = "ok" /\ link' = v
                       /\ (v # "" /\ v \notin ArchiveTops) =>
                            report' = "error: not installed" /\ link' = link ]_vars

\* C24 witness: no marker in the working directory, one in its parent and
\* another in the root; the parent's version, trimmed, was activated.
UsedMarkerOfParent ==
  /\ cmd = "use" /\ pc = "done" /\ report = "ok"
  /\ cwd = 2 /\ currentDir = 1
  /\ markers[2] = NoMarker /\ markers[1] = " zig-12 " /\ markers[0] = "zig-1"
  /\ link = "zig-12"

\* C25: an install with an alias that ends in the already-installed conflict
\* leaves the alias file as it was: no step of it writes the file, and the
\* alias asked for is not in it afterwards.
ConflictLeavesAliases ==
  /\ [][(cmd' = "install" /\ pc # "install_alias") => aliases' = aliases]_vars
  /\ [][(pc = "access" /\ alias # "" /\ fs[dirName] # "absent"
           /\ report' # "interrupted at access") =>
          /\ pc' = "done" /\ report' = "error: already installed"
          /\ aliases' = aliases ]_vars
  /\ []((cmd = "install" /\ pc = "done" /\ report = "error: already installed"
           /\ alias # "") => alias \notin DOMAIN aliases)

\* C25 witness: an install with the alias stable ended in the conflict; the
\* alias file holds another alias and not stable.
ConflictWithAliasRequested ==
  /\ cmd = "install" /\ pc = "done" /\ report = "error: already installed"
  /\ alias = "stable" /\ alias \notin DOMAIN aliases /\ DOMAIN aliases # {}
  /\ fs[dirName] = "complete"

====
